---- MODULE Spec2Model ----
(***************************************************************************)
(* A model of the governance-agent scoring pipeline:                       *)
(*   ProposalAnalyzer.analyze_proposal   (src/src/proposal_analyzer.py)    *)
(*   EvaluatorAgent.evaluate_proposal    (src/src/evaluator_agents.py)     *)
(*   SentimentAnalyzer.analyze_all_comments (src/src/sentiment_analyzer.py)*)
(*   analyze_proposal(url, ...)          (src/src/analyze_proposal.py)     *)
(*                                                                         *)
(* Numbers.  A Python float is modelled as an exact fraction [n, d] with   *)
(* d > 0.  The values a response carries are multiples of 1/Scale; the     *)
(* quotient v / total_score is kept as the fraction v/total_score.  The    *)
(* rounding of IEEE doubles (about 1e-16) is far below the 1e-4 tolerance  *)
(* the code and the claims use, and is not modelled.                       *)
(*                                                                         *)
(* Text.  A model response is a sequence of tokens: "{" and "}" are the    *)
(* brace characters, "t" is a run of characters without braces, and "B"    *)
(* is a well-formed list of JSON members (without its braces), whose       *)
(* content is the response's body.                                         *)
(***************************************************************************)
EXTENDS Integers, Sequences, FiniteSets, TLC

VARIABLES
    pc,              \* position of the operation under analysis
    args,            \* the arguments the operation was called with
    frame,           \* the local variables of the operation
    response,        \* what messages.create gave: an exception or a text
    result,          \* the dict the operation returned
    raised,          \* the exception that left the operation, or "none"
    model_calls      \* number of messages.create invocations so far

vars == <<pc, args, frame, response, result, raised, model_calls>>

(***************************************************************************)
(* Bounds of the model.                                                    *)
(***************************************************************************)
MaxNonZero == 2      \* a response gives at most this many non-zero scores
MaxTextLen == 3      \* tokens in a response text
MaxEvalLen == 4      \* characters in an evaluation response text
MaxComments == 4     \* comments handed to analyze_all_comments
MaxBatchSize == 3    \* batch_size of the SentimentAnalyzer
MaxPipelineComments == 1   \* comments of the proposal the pipeline fetches
MaxPipelineNonZero == 1    \* non-zero scores of a response in the pipeline
MaxPromptListed == 4       \* comments of a proposal whose prompt is built
MaxHtmlLen == 4            \* characters of a text given to clean_html_content
NumRequests == 2           \* analysis requests served by the process
MaxHeapComments == 3       \* comment records of a list held on the heap

(***************************************************************************)
(* Program constants.                                                      *)
(***************************************************************************)
TolDen == 10000      \* the tolerance 0.0001 is 1/TolDen
Scale == 2 * TolDen  \* resolution of the modelled scores: 1/Scale = 0.00005

Categories ==
    << "protocol_parameters", "treasury_management", "tokenomics",
       "protocol_upgrades", "governance_process",
       "partnerships_integrations", "risk_management",
       "community_initiatives" >>

CategorySet == { Categories[i] : i \in 1..Len(Categories) }

HintKeys == { "sum", "primary_category", "summary" }

(***************************************************************************)
(* Fractions.                                                              *)
(***************************************************************************)
Abs(x) == IF x < 0 THEN -x ELSE x

Frac(n, d) == IF d < 0 THEN [n |-> -n, d |-> -d] ELSE [n |-> n, d |-> d]

FracEq(a, b) == a.n * b.d = b.n * a.d

FracLess(a, b) == a.n * b.d < b.n * a.d

Zero == Frac(0, Scale)

One == Frac(Scale, Scale)

\* |a - 1.0| <= 0.0001
WithinTolerance(a) == Abs(a.n - a.d) * TolDen <= a.d

RECURSIVE SumInts(_, _)
SumInts(f, S) ==
    IF S = {} THEN 0
    ELSE LET k == CHOOSE x \in S : TRUE
         IN f[k] + SumInts(f, S \ {k})

\* sum of fractions; the values of one dict share their denominator
\* (Scale before the division, total_score after it)
SumFracs(f, S) ==
    IF S = {} THEN Zero
    ELSE LET k == CHOOSE x \in S : TRUE
         IN Frac(SumInts([x \in S |-> f[x].n], S), f[k].d)

(***************************************************************************)
(* Model responses.                                                        *)
(***************************************************************************)
Tokens == { "{", "}", "t", "B" }

Texts == UNION { [1..n -> Tokens] : n \in 0..MaxTextLen }

Half == Scale \div 2                      \* 0.5

NonZeroVals == { -Half, Half, Half + 1, Half + Scale \div 10 }

ExtraKey == "other"                       \* a key outside the 8 categories

\* the 8 category scores, at most MaxNonZero of them non-zero
SparseScores ==
    { [c \in CategorySet |-> IF c \in DOMAIN f THEN f[c] ELSE 0] :
        f \in UNION { [S -> NonZeroVals] :
                S \in { T \in SUBSET CategorySet : Cardinality(T) <= MaxNonZero } } }

\* the model may leave a category out, and may add a key of its own
MissingSets == { {}, { Categories[Len(Categories)] } }

ScoreDicts ==
    { [k \in (CategorySet \ M) \cup X |->
            IF k \in CategorySet THEN s[k] ELSE Half] :
        s \in SparseScores, M \in MissingSets, X \in { {}, { ExtraKey } } }

PrimaryHints == { Categories[1], Categories[2] }

SumHints == { Scale, Scale + Scale \div 10 }

ModelSummary == << "summary of the proposal" >>

\* the dict json.loads gives for the members "B"
Bodies ==
    { [scores |-> s, keys |-> HintKeys, sum |-> Frac(h, Scale),
       primary_category |-> p, summary |-> ModelSummary] :
        s \in ScoreDicts, h \in SumHints, p \in PrimaryHints }

\* the dict json.loads gives for "{}"
EmptyBody ==
    [scores |-> <<>>, keys |-> {}, sum |-> Zero,
     primary_category |-> "", summary |-> <<>>]

(***************************************************************************)
(* Extraction of the JSON block: str.find, str.rfind and the slice.        *)
(***************************************************************************)
\* str.find: 0-based index of the first occurrence, -1 when there is none
Find(text, tok) ==
    IF \E i \in 1..Len(text) : text[i] = tok
    THEN (CHOOSE i \in 1..Len(text) :
            text[i] = tok /\ \A j \in 1..(i - 1) : text[j] # tok) - 1
    ELSE -1

\* str.rfind: 0-based index of the last occurrence, -1 when there is none
RFind(text, tok) ==
    IF \E i \in 1..Len(text) : text[i] = tok
    THEN (CHOOSE i \in 1..Len(text) :
            text[i] = tok /\ \A j \in (i + 1)..Len(text) : text[j] # tok) - 1
    ELSE -1

json_start(text) == Find(text, "{")

json_end(text) == RFind(text, "}") + 1

HasJsonBlock(text) == json_start(text) >= 0 /\ json_end(text) > json_start(text)

\* response_text[json_start:json_end]
JsonSlice(text) == SubSeq(text, json_start(text) + 1, json_end(text))

\* json.loads succeeds on one object: "{}" or "{" members "}"
JsonDecodes(slice) == slice \in { << "{", "}" >>, << "{", "B", "}" >> }

\* the members of a text are read only when the extracted block decodes
\* to an object with members; the body of any other text is never read
\* and is represented by EmptyBody
HoldsMembers(text) ==
    HasJsonBlock(text) /\ JsonSlice(text) = << "{", "B", "}" >>

ApiError == "APIError: connection error"

ApiFailure == [api |-> "error", text |-> <<>>, body |-> EmptyBody]

\* what one messages.create call can give
Responses ==
    { ApiFailure } \cup
    { [api |-> "ok", text |-> t, body |-> b] :
        t \in Texts \ { x \in Texts : HoldsMembers(x) }, b \in { EmptyBody } } \cup
    { [api |-> "ok", text |-> t, body |-> b] :
        t \in { x \in Texts : HoldsMembers(x) }, b \in Bodies }

NoResponse == [api |-> "none", text |-> <<>>, body |-> EmptyBody]

(***************************************************************************)
(* ProposalAnalyzer.analyze_proposal                                       *)
(***************************************************************************)
Returned(value) == [raised |-> "none", value |-> value]

NoResult ==
    [scores |-> <<>>, keys |-> {}, sum |-> Zero,
     primary_category |-> "", summary |-> <<>>]

Raised(exc) == [raised |-> exc, value |-> NoResult]

\* the dict of the except branch
ErrorRecord(reason) ==
    [scores |-> [c \in CategorySet |-> Zero], keys |-> HintKeys, sum |-> Zero,
     primary_category |-> "error",
     summary |-> << "Error analyzing proposal: ", reason >>]

\* result = json.loads(...): the scores become floats
LoadedDict(body) ==
    [body EXCEPT !.scores = [k \in DOMAIN body.scores |-> Frac(body.scores[k], Scale)]]

\* category_scores: every key of result outside the three hint keys
category_scores(res) == res.scores

\* total_score = sum(category_scores.values())
total_score(res) == SumFracs(category_scores(res), DOMAIN category_scores(res))

\* abs(total_score - 1.0) > 0.0001
NeedsNormalizing(total) == ~WithinTolerance(total)

\* key of the largest score, the first one in enumeration order on a tie
ArgMaxFirst(scores) ==
    Categories[CHOOSE i \in 1..Len(Categories) :
        /\ \A j \in 1..Len(Categories) :
              ~FracLess(scores[Categories[i]], scores[Categories[j]])
        /\ \A j \in 1..(i - 1) :
              FracLess(scores[Categories[j]], scores[Categories[i]])]

\* the loop dividing every score by total_score, result.update and
\* result['sum'] = 1.0
Normalized(res) ==
    LET total == total_score(res)
    IN [res EXCEPT
          !.scores = [k \in DOMAIN res.scores |->
                        Frac(res.scores[k].n, total.n)],
          !.keys = res.keys \cup { "sum" },
          !.sum = One]

\* the try block: what it returns, or the exception it raises
TryBlock(r) ==
    IF r.api = "error" THEN Raised(ApiError)
    ELSE IF ~HasJsonBlock(r.text)
    THEN Raised("No valid JSON found in response")
    ELSE IF ~JsonDecodes(JsonSlice(r.text))
    THEN Raised("JSONDecodeError")
    ELSE LET res == LoadedDict(r.body)
             total == total_score(res)
         IN IF NeedsNormalizing(total)
            THEN IF total.n = 0 /\ DOMAIN category_scores(res) # {}
                 THEN Raised("float division by zero")
                 ELSE Returned(Normalized(res))
            ELSE Returned(res)

\* mutant of analyze_proposal: the handler catches the API error only
analyze_proposal_narrow_except(r) ==
    LET t == TryBlock(r)
    IN IF t.raised = ApiError THEN Returned(ErrorRecord(t.raised)) ELSE t

\* except Exception as e: return the error record
analyze_proposal(r) ==
    LET t == TryBlock(r)
    IN IF t.raised # "none" THEN Returned(ErrorRecord(t.raised)) ELSE t

(***************************************************************************)
(* Specification of one ProposalAnalyzer.analyze_proposal call.            *)
(***************************************************************************)
NoArgs == [op |-> "none"]

NoFrame == [op |-> "none"]

InitClassify ==
    /\ pc = "idle"
    /\ args = NoArgs
    /\ frame = NoFrame
    /\ response = NoResponse
    /\ result = NoResult
    /\ raised = "none"
    /\ model_calls = 0

AnalyzeProposal ==
    /\ pc = "idle"
    /\ \E r \in Responses :
          LET out == analyze_proposal(r)
          IN /\ response' = r
             /\ result' = out.value
             /\ raised' = out.raised
    /\ model_calls' = model_calls + 1
    /\ pc' = "returned"
    /\ UNCHANGED <<args, frame>>

NextClassify == AnalyzeProposal

SpecClassify == InitClassify /\ [][NextClassify]_vars

(***************************************************************************)
(* Properties of ProposalAnalyzer.analyze_proposal (SpecClassify).         *)
(***************************************************************************)
\* the response held one JSON object and json.loads decoded it
Decoded == response.api = "ok" /\ HasJsonBlock(response.text)
              /\ JsonDecodes(JsonSlice(response.text))

\* the response gave a value for each of the 8 categories
GaveAll8 == Decoded /\ CategorySet \subseteq DOMAIN response.body.scores

\* total of the 8 category values of the response, in units of 1/Scale
ModelTotal8 == SumInts(response.body.scores, CategorySet)

HasAll8(res) == CategorySet \subseteq DOMAIN res.scores

Total8(res) == SumFracs(res.scores, CategorySet)

AllZero8(res) == \A c \in CategorySet : res.scores[c].n = 0

\* C1: every returned record has its 8 category values summing to 1.0
\* within 1e-4, or all 8 exactly 0.0, whatever the model returned.
C1_SumOneOrAllZero ==
    pc = "returned" =>
        /\ raised = "none"
        /\ HasAll8(result)
        /\ WithinTolerance(Total8(result)) \/ AllZero8(result)

\* C2: with a non-zero total the returned primary_category is the
\* key of the largest category value (first in enumeration order on a tie),
\* whatever primary_category the response supplied.
C2_PrimaryRecomputed ==
    (pc = "returned" /\ raised = "none" /\ HasAll8(result)
        /\ Total8(result).n # 0)
    => result.primary_category = ArgMaxFirst(result.scores)

\* C3: when the 8 category values of the response have a total that is
\* non-zero and further than 1e-4 from 1.0, every returned category value is
\* the response's value divided by that total and the returned sum is 1.0.
C3_DividedByTotal ==
    (pc = "returned" /\ GaveAll8 /\ ModelTotal8 # 0
        /\ ~WithinTolerance(Frac(ModelTotal8, Scale)))
    => /\ raised = "none"
       /\ HasAll8(result)
       /\ \A c \in CategorySet :
             FracEq(result.scores[c], Frac(response.body.scores[c], ModelTotal8))
       /\ "sum" \in result.keys /\ FracEq(result.sum, One)

\* C4: when the 8 category values of the response already sum to 1.0 within
\* 1e-4 they are returned unchanged, and normalizing a returned record again
\* leaves its values unchanged.
C4_Idempotent ==
    /\ (pc = "returned" /\ GaveAll8 /\ WithinTolerance(Frac(ModelTotal8, Scale)))
       => /\ raised = "none"
          /\ HasAll8(result)
          /\ \A c \in CategorySet :
                FracEq(result.scores[c], Frac(response.body.scores[c], Scale))
    /\ (pc = "returned" /\ raised = "none" /\ HasAll8(result)
            /\ Total8(result).n # 0 /\ NeedsNormalizing(total_score(result)))
       => \A c \in CategorySet :
             FracEq(Normalized(result).scores[c], result.scores[c])

\* C5: when the response decodes and all 8 category values are 0, no
\* division happens, the 8 values stay zero and primary_category is the
\* first category of the enumeration order, not the error marker.
C5_ZeroTotalTieBreak ==
    (pc = "returned" /\ GaveAll8
        /\ \A c \in CategorySet : response.body.scores[c] = 0)
    => /\ raised = "none"
       /\ HasAll8(result) /\ AllZero8(result)
       /\ result.primary_category = Categories[1]
       /\ result.primary_category # "error"
       /\ \A i \in 1..Len(result.summary) :
             result.summary[i] # "float division by zero"

\* the reason of the failure of the call
FailureReason ==
    IF response.api = "error" THEN ApiError
    ELSE IF ~HasJsonBlock(response.text) THEN "No valid JSON found in response"
    ELSE "JSONDecodeError"

\* C6: when the model call fails, the response holds no JSON block or the
\* extracted block does not decode, analyze_proposal raises nothing and
\* returns 8 zero values, primary_category "error" and a summary containing
\* the failure reason.
C6_FailureRecovered ==
    (pc = "returned" /\ ~Decoded)
    => /\ raised = "none"
       /\ DOMAIN result.scores = CategorySet
       /\ \A c \in CategorySet : result.scores[c] = Zero
       /\ result.primary_category = "error"
       /\ \E i \in 1..Len(result.summary) : result.summary[i] = FailureReason

\* C6 witness: a response with a brace block that does not decode, recovered
\* into the error record.
C6_Witness ==
    /\ pc = "returned" /\ raised = "none"
    /\ response.api = "ok" /\ HasJsonBlock(response.text)
    /\ ~JsonDecodes(JsonSlice(response.text))
    /\ result = ErrorRecord("JSONDecodeError")

(***************************************************************************)
(* EvaluatorAgent.evaluate_proposal (evaluator_agents.py).                 *)
(*                                                                         *)
(* An evaluation response is a sequence of characters; "score" stands for  *)
(* the word in any case, " " for a whitespace character, "x" for any       *)
(* character the score pattern does not name, "0" and "8" are digits.      *)
(***************************************************************************)
EvalChars == { "score", " ", "(", ")", ":", ".", "0", "8", "x" }

Digits == { "0", "8" }

DigitValue(c) == IF c = "8" THEN 8 ELSE 0

EvalTexts == UNION { [1..n -> EvalChars] : n \in 0..MaxEvalLen }

EvalResponses ==
    { ApiFailure } \cup
    { [api |-> "ok", text |-> t, body |-> EmptyBody] : t \in EvalTexts }

\* self.prompts: the keys of the dispatch table
PromptKeys == CategorySet

\* positions reachable by skipping any number of c from a position of P
SkipMany(text, P, c) ==
    { q \in 1..(Len(text) + 1) :
        \E p0 \in P : p0 <= q /\ \A k \in p0..(q - 1) : text[k] = c }

\* positions reachable by skipping at most one c from a position of P
SkipOptional(text, P, c) ==
    P \cup { p0 + 1 : p0 \in { q \in P : q <= Len(text) /\ text[q] = c } }

\* positions reachable by reading one or more digits from a position of P
ReadDigits(text, P) ==
    { q \in 1..(Len(text) + 1) :
        \E p0 \in P : p0 < q /\ \A k \in p0..(q - 1) : text[k] \in Digits }

\* positions after a match of score\s*\(?0?\.?\d+\)?\s*: that starts at i
ScorePatternEnds(text, i) ==
    IF text[i] # "score" THEN {}
    ELSE LET a == SkipMany(text, { i + 1 }, " ")
             b == SkipOptional(text, a, "(")
             c == SkipOptional(text, b, "0")
             d == SkipOptional(text, c, ".")
             e == ReadDigits(text, d)
             f == SkipOptional(text, e, ")")
             g == SkipMany(text, f, " ")
         IN { q + 1 : q \in { x \in g : x <= Len(text) /\ text[x] = ":" } }

\* re.search(r"score\s*\(?0?\.?\d+\)?\s*:", ...).group(): the leftmost
\* match, or the empty text when there is none
score_match(text) ==
    LET starts == { i \in 1..Len(text) : ScorePatternEnds(text, i) # {} }
    IN IF starts = {} THEN <<>>
       ELSE LET i == CHOOSE x \in starts : \A y \in starts : x <= y
                e == CHOOSE x \in ScorePatternEnds(text, i) : TRUE
            IN SubSeq(text, i, e - 1)

\* end of the longest run of digits of m that starts at position p
DigitRunEnd(m, p) ==
    CHOOSE q \in p..(Len(m) + 1) :
        /\ \A k \in p..(q - 1) : m[k] \in Digits
        /\ q = Len(m) + 1 \/ m[q] \notin Digits

\* re.search(r"0?\.?\d+", m).group(): leftmost, each optional part taken
\* when the rest can still match
NumberIn(m) ==
    LET Try(j, z, d) ==
            \* z, d: whether "0" and "." are consumed; gives the end or 0
            LET p1 == IF z THEN j + 1 ELSE j
                p2 == IF d THEN p1 + 1 ELSE p1
                okz == ~z \/ (j <= Len(m) /\ m[j] = "0")
                okd == ~d \/ (p1 <= Len(m) /\ m[p1] = ".")
            IN IF okz /\ okd /\ p2 <= Len(m) /\ m[p2] \in Digits
               THEN DigitRunEnd(m, p2) ELSE 0
        EndAt(j) ==
            IF Try(j, TRUE, TRUE) # 0 THEN Try(j, TRUE, TRUE)
            ELSE IF Try(j, TRUE, FALSE) # 0 THEN Try(j, TRUE, FALSE)
            ELSE IF Try(j, FALSE, TRUE) # 0 THEN Try(j, FALSE, TRUE)
            ELSE Try(j, FALSE, FALSE)
        starts == { j \in 1..Len(m) : EndAt(j) # 0 }
    IN IF starts = {} THEN <<>>
       ELSE LET j == CHOOSE x \in starts : \A y \in starts : x <= y
            IN SubSeq(m, j, EndAt(j) - 1)

RECURSIVE IntOf(_)
\* int of a run of digits
IntOf(ds) ==
    IF ds = <<>> THEN 0
    ELSE 10 * IntOf(SubSeq(ds, 1, Len(ds) - 1)) + DigitValue(ds[Len(ds)])

RECURSIVE Pow10(_)
Pow10(k) == IF k = 0 THEN 1 ELSE 10 * Pow10(k - 1)

\* float(...) of a text of the shape 0?\.?\d+
FloatOf(num) ==
    LET dot == { k \in 1..Len(num) : num[k] = "." }
    IN IF dot = {} THEN Frac(IntOf(num), 1)
       ELSE LET k == CHOOSE x \in dot : TRUE
                frac == SubSeq(num, k + 1, Len(num))
            IN Frac(IntOf(frac), Pow10(Len(frac)))

\* the score taken from the response text: 0.0 unless the pattern matches
ExtractedScore(text) ==
    IF score_match(text) = <<>> THEN Frac(0, 1)
    ELSE FloatOf(NumberIn(score_match(text)))

NoEvaluation == [keys |-> {}, score |-> Frac(0, 1), analysis |-> <<>>, category |-> ""]

\* proposal_details of the call: the keys it holds
ProposalDetails ==
    { [keys |-> K] :
        K \in { { "title", "created_at", "content", "comments" },
                { "title", "content" } } }

\* the keys the f-string of lines 149-157 subscripts
RequiredDetailKeys == { "title", "created_at", "content" }

\* whether the call gets as far as messages.create
ReachesModel(category, proposal_details) ==
    category \in PromptKeys /\ RequiredDetailKeys \subseteq proposal_details.keys

\* mutant of evaluate_proposal: an unknown category falls back to a default
\* evaluation instead of raising
evaluate_proposal_defaulting(category, proposal_details, r) ==
    IF category \notin PromptKeys
    THEN Returned([keys |-> { "score", "analysis", "category" },
                   score |-> Frac(0, 1),
                   analysis |-> << "Unknown category" >>,
                   category |-> category])
    ELSE IF ~(RequiredDetailKeys \subseteq proposal_details.keys)
    THEN Raised("KeyError")
    ELSE Returned([keys |-> { "score", "analysis", "category" },
                   score |-> IF r.api = "error" THEN Frac(0, 1)
                             ELSE ExtractedScore(r.text),
                   analysis |-> IF r.api = "error"
                                THEN << "Error evaluating proposal: ", ApiError >>
                                ELSE r.text,
                   category |-> category])

evaluate_proposal(category, proposal_details, r) ==
    IF category \notin PromptKeys
    THEN [raised |-> "ValueError: Unknown category", value |-> NoEvaluation]
    ELSE IF ~(RequiredDetailKeys \subseteq proposal_details.keys)
    THEN [raised |-> "KeyError", value |-> NoEvaluation]
    ELSE IF r.api = "error"
    THEN Returned([keys |-> { "score", "analysis", "category" },
                   score |-> Frac(0, 1),
                   analysis |-> << "Error evaluating proposal: ", ApiError >>,
                   category |-> category])
    ELSE Returned([keys |-> { "score", "analysis", "category" },
                   score |-> ExtractedScore(r.text),
                   analysis |-> r.text,
                   category |-> category])

(***************************************************************************)
(* Specification of one EvaluatorAgent.evaluate_proposal call.             *)
(***************************************************************************)
EvalCategories ==
    { Categories[1], Categories[Len(Categories)],
      "error", "nonexistent_category" }

InitEvaluate ==
    /\ pc = "idle"
    /\ args = NoArgs
    /\ frame = NoFrame
    /\ response = NoResponse
    /\ result = NoEvaluation
    /\ raised = "none"
    /\ model_calls = 0

EvaluateProposal ==
    /\ pc = "idle"
    /\ \E category \in EvalCategories, proposal_details \in ProposalDetails :
         \E r \in IF ReachesModel(category, proposal_details)
                  THEN EvalResponses ELSE { NoResponse } :
            LET out == evaluate_proposal(category, proposal_details, r)
            IN /\ args' = [op |-> "evaluate_proposal", category |-> category,
                           proposal_details |-> proposal_details]
               /\ response' = r
               /\ result' = out.value
               /\ raised' = out.raised
               /\ model_calls' = IF ReachesModel(category, proposal_details)
                                 THEN model_calls + 1 ELSE model_calls
    /\ pc' = IF raised' = "none" THEN "returned" ELSE "raised"
    /\ UNCHANGED frame

NextEvaluate == EvaluateProposal

SpecEvaluate == InitEvaluate /\ [][NextEvaluate]_vars

\* C7: evaluate_proposal called with a category outside the 8 table keys
\* raises the unknown-category error to its caller, returns no evaluation,
\* and makes no model call.
C7_UnknownCategoryRaises ==
    (pc # "idle" /\ args.op = "evaluate_proposal"
        /\ args.category \notin CategorySet)
    => /\ pc = "raised"
       /\ raised = "ValueError: Unknown category"
       /\ result = NoEvaluation
       /\ model_calls = 0
       /\ response = NoResponse

\* C7 witness: a call with "nonexistent_category" has raised.
C7_Witness ==
    /\ pc = "raised" /\ args.op = "evaluate_proposal"
    /\ args.category = "nonexistent_category"
    /\ raised = "ValueError: Unknown category" /\ model_calls = 0

(***************************************************************************)
(* SentimentAnalyzer (sentiment_analyzer.py).                              *)
(***************************************************************************)
\* the dicts a batch response can decode to
SentimentBodies ==
    { [keys |-> { "sentiment_score", "summary", "key_points", "concerns",
                  "suggestions" },
       sentiment_score |-> Frac(Half, Scale), summary |-> << "mostly positive" >>,
       key_points |-> << "a", "b" >>, concerns |-> << "x" >>,
       suggestions |-> <<>>],
      [keys |-> { "sentiment_score", "summary", "key_points", "concerns",
                  "suggestions" },
       sentiment_score |-> Frac(-Scale, Scale), summary |-> << "negative" >>,
       key_points |-> << "b", "c" >>, concerns |-> <<>>,
       suggestions |-> << "x" >>],
      [keys |-> { "sentiment_score", "summary", "key_points", "suggestions" },
       sentiment_score |-> Frac(Scale, Scale), summary |-> << "positive" >>,
       key_points |-> << "a" >>, concerns |-> <<>>,
       suggestions |-> <<>>] }

\* the dict json.loads gives for "{}" in a batch response
EmptyAnalysis ==
    [keys |-> {}, sentiment_score |-> Zero, summary |-> <<>>,
     key_points |-> <<>>, concerns |-> <<>>, suggestions |-> <<>>]

SentimentTexts ==
    { << "t" >>, << "{", "t", "}" >>, << "{", "}" >>, << "{", "B", "}" >>,
      << "t", "{", "B", "}", "t" >> }

\* what the messages.create call of one batch can give
BatchResponses ==
    { ApiFailure } \cup
    { [api |-> "ok", text |-> t, body |-> b] :
        t \in { x \in SentimentTexts : ~HoldsMembers(x) }, b \in { EmptyAnalysis } } \cup
    { [api |-> "ok", text |-> t, body |-> b] :
        t \in { x \in SentimentTexts : HoldsMembers(x) }, b \in SentimentBodies }

\* what the final summary call can give
SummaryResponses ==
    { ApiFailure,
      [api |-> "ok", text |-> << "t" >>, body |-> EmptyAnalysis] }

\* the analysis of the except branch of analyze_comment_batch
ErrorAnalysis(reason) ==
    [keys |-> { "sentiment_score", "summary", "key_points", "concerns",
                "suggestions" },
     sentiment_score |-> Zero,
     summary |-> << "Error analyzing comments: ", reason >>,
     key_points |-> <<>>, concerns |-> <<>>, suggestions |-> <<>>]

\* mutant of analyze_comment_batch: a failure is not recovered into the
\* error analysis; the batch gets an analysis without any field
analyze_comment_batch_unrecovered(comments, r) ==
    [comments |-> comments,
     analysis |->
        IF r.api = "error" \/ ~HasJsonBlock(r.text)
              \/ ~JsonDecodes(JsonSlice(r.text))
        THEN EmptyAnalysis
        ELSE r.body]

\* analyze_comment_batch: the batch and the analysis of its response
analyze_comment_batch(comments, r) ==
    [comments |-> comments,
     analysis |->
        IF r.api = "error" THEN ErrorAnalysis(ApiError)
        ELSE IF ~HasJsonBlock(r.text)
        THEN ErrorAnalysis("No valid JSON found in response")
        ELSE IF ~JsonDecodes(JsonSlice(r.text))
        THEN ErrorAnalysis("JSONDecodeError")
        ELSE r.body]

Min(a, b) == IF a < b THEN a ELSE b

\* mutant of Batch: the slice drops the last comment of a full batch
BatchShort(comments, i, batch_size) ==
    SubSeq(comments, i + 1, Min(i + batch_size - 1, Len(comments)))

\* comments[i:i + self.batch_size]
Batch(comments, i, batch_size) ==
    SubSeq(comments, i + 1, Min(i + batch_size, Len(comments)))

\* mutant of NoComments: the guard tests for None only
NoCommentsNoneOnly(comments) == FALSE

\* not comments
NoComments(comments) == Len(comments) = 0

\* the record returned for an empty comment list
EmptyAggregate ==
    [sentiment_score |-> Zero, summary |-> << "No comments to analyze" >>,
     key_points |-> <<>>, concerns |-> <<>>, suggestions |-> <<>>,
     num_comments |-> 0]

NoAggregate ==
    [sentiment_score |-> Zero, summary |-> <<>>,
     key_points |-> <<>>, concerns |-> <<>>, suggestions |-> <<>>,
     num_comments |-> -1]

RECURSIVE ExtendedReversed(_, _, _)
\* mutant of Extended: the list of a later batch is put in front
ExtendedReversed(batch_results, k, key) ==
    IF k = 0 THEN <<>>
    ELSE (IF key = "key_points" THEN batch_results[k].analysis.key_points
          ELSE IF key = "concerns" THEN batch_results[k].analysis.concerns
          ELSE batch_results[k].analysis.suggestions)
         \o ExtendedReversed(batch_results, k - 1, key)

RECURSIVE Extended(_, _, _)
\* the list built by extend over batch_results[1..k], for one list key
Extended(batch_results, k, key) ==
    IF k = 0 THEN <<>>
    ELSE Extended(batch_results, k - 1, key) \o
         (IF key = "key_points" THEN batch_results[k].analysis.key_points
          ELSE IF key = "concerns" THEN batch_results[k].analysis.concerns
          ELSE batch_results[k].analysis.suggestions)

RECURSIVE TotalSentimentWeighted(_, _)
\* mutant of TotalSentiment: each batch score is weighted by the number of
\* comments of the batch
TotalSentimentWeighted(batch_results, k) ==
    IF k = 0 THEN 0
    ELSE TotalSentimentWeighted(batch_results, k - 1)
         + batch_results[k].analysis.sentiment_score.n
           * Len(batch_results[k].comments)

RECURSIVE TotalSentiment(_, _)
\* total_sentiment after batch_results[1..k], in units of 1/Scale
TotalSentiment(batch_results, k) ==
    IF k = 0 THEN 0
    ELSE TotalSentiment(batch_results, k - 1)
         + batch_results[k].analysis.sentiment_score.n

\* the keys the aggregation loop subscripts in every analysis
AggregatedKeys == { "sentiment_score", "key_points", "concerns", "suggestions" }

\* lines 124-178: the aggregation, the summary call and the return
Aggregate(comments, batch_results, r) ==
    IF \E k \in 1..Len(batch_results) :
          ~(AggregatedKeys \subseteq batch_results[k].analysis.keys)
    THEN [raised |-> "KeyError", value |-> NoAggregate, calls |-> 0]
    ELSE IF Len(batch_results) = 0
    THEN [raised |-> "ZeroDivisionError", value |-> NoAggregate, calls |-> 0]
    ELSE [raised |-> "none", calls |-> 1,
          value |->
            [sentiment_score |->
                Frac(TotalSentiment(batch_results, Len(batch_results)),
                     Scale * Len(batch_results)),
             summary |-> IF r.api = "error"
                         THEN << "Error generating final summary: ", ApiError >>
                         ELSE r.text,
             key_points |-> Extended(batch_results, Len(batch_results), "key_points"),
             concerns |-> Extended(batch_results, Len(batch_results), "concerns"),
             suggestions |-> Extended(batch_results, Len(batch_results), "suggestions"),
             num_comments |-> Len(comments)]]

(***************************************************************************)
(* Specification of one SentimentAnalyzer.analyze_all_comments call.       *)
(***************************************************************************)
\* comments are named by their position in the forum thread
CommentLists == { [k \in 1..n |-> k] : n \in 0..MaxComments }

InitSentiment ==
    /\ pc = "idle"
    /\ args = NoArgs
    /\ frame = NoFrame
    /\ response = NoResponse
    /\ result = NoAggregate
    /\ raised = "none"
    /\ model_calls = 0

\* the call, up to the start of the batch loop
CallAnalyzeAllComments ==
    /\ pc = "idle"
    /\ \E comments \in CommentLists, batch_size \in 1..MaxBatchSize :
          /\ args' = [op |-> "analyze_all_comments", comments |-> comments,
                      batch_size |-> batch_size]
          /\ IF NoComments(comments)
             THEN /\ pc' = "returned"
                  /\ result' = EmptyAggregate
                  /\ frame' = NoFrame
             ELSE /\ pc' = "batching"
                  /\ result' = result
                  /\ frame' = [op |-> "analyze_all_comments", i |-> 0,
                               batch_results |-> <<>>]
    /\ UNCHANGED <<response, raised, model_calls>>

\* one iteration of the loop of lines 118-121
AnalyzeBatch ==
    /\ pc = "batching"
    /\ frame.i < Len(args.comments)
    /\ \E r \in BatchResponses :
          /\ response' = r
          /\ frame' = [frame EXCEPT
                !.batch_results = Append(@,
                    analyze_comment_batch(
                        Batch(args.comments, frame.i, args.batch_size), r)),
                !.i = @ + args.batch_size]
    /\ model_calls' = model_calls + 1
    /\ UNCHANGED <<pc, args, result, raised>>

\* the loop is exhausted: aggregation, summary call and return
AggregateAndReturn ==
    /\ pc = "batching"
    /\ frame.i >= Len(args.comments)
    /\ \E r \in SummaryResponses :
          LET out == Aggregate(args.comments, frame.batch_results, r)
          IN /\ response' = IF out.calls = 1 THEN r ELSE response
             /\ result' = out.value
             /\ raised' = out.raised
             /\ model_calls' = model_calls + out.calls
             /\ pc' = IF out.raised = "none" THEN "returned" ELSE "raised"
    /\ UNCHANGED <<args, frame>>

NextSentiment == CallAnalyzeAllComments \/ AnalyzeBatch \/ AggregateAndReturn

SpecSentiment == InitSentiment /\ [][NextSentiment]_vars

\* the list of the comments of batch_results[1..k], in order
RECURSIVE BatchedComments(_, _)
BatchedComments(batch_results, k) ==
    IF k = 0 THEN <<>>
    ELSE BatchedComments(batch_results, k - 1) \o batch_results[k].comments

\* the batch loop of the call has run to its end
LoopDone ==
    /\ args.op = "analyze_all_comments"
    /\ frame.op = "analyze_all_comments"
    /\ frame.i >= Len(args.comments)

\* C9: with an empty comment list analyze_all_comments returns
\* sentiment_score 0.0, num_comments 0 and empty key_points, concerns and
\* suggestions, and makes no model call.
C9_EmptyShortCircuit ==
    (pc # "idle" /\ args.op = "analyze_all_comments" /\ Len(args.comments) = 0)
    => /\ pc = "returned" /\ raised = "none"
       /\ result.sentiment_score.n = 0
       /\ result.num_comments = 0
       /\ result.key_points = <<>>
       /\ result.concerns = <<>>
       /\ result.suggestions = <<>>
       /\ model_calls = 0

\* C9 witness: the call with no comments has returned.
C9_Witness ==
    /\ pc = "returned" /\ args.op = "analyze_all_comments"
    /\ args.comments = <<>> /\ result = EmptyAggregate /\ model_calls = 0

\* C10: for n >= 1 comments and batch size b >= 1 the loop forms exactly
\* ceil(n/b) batches, all of b comments except the last, which has between
\* 1 and b; the batches in order concatenate to the input; and the returned
\* num_comments is n.
C10_Batching ==
    LoopDone =>
        LET n == Len(args.comments)
            b == args.batch_size
            br == frame.batch_results
        IN /\ Len(br) = (n + b - 1) \div b
           /\ \A k \in 1..(Len(br) - 1) : Len(br[k].comments) = b
           /\ Len(br[Len(br)].comments) \in 1..b
           /\ BatchedComments(br, Len(br)) = args.comments
           /\ pc = "returned" => result.num_comments = n

\* C10 witness: 4 comments in batches of 3 returned as batches of 3 and 1.
C10_Witness ==
    /\ pc = "returned" /\ LoopDone
    /\ Len(args.comments) = 4 /\ args.batch_size = 3
    /\ Len(frame.batch_results) = 2
    /\ frame.batch_results[1].comments = << 1, 2, 3 >>
    /\ frame.batch_results[2].comments = << 4 >>
    /\ result.num_comments = 4

(***************************************************************************)
(* Properties of the aggregation (under SpecSentiment).                    *)
(***************************************************************************)
\* s with every entry that repeats an earlier one removed
RECURSIVE Dedup(_)
Dedup(s) ==
    IF s = <<>> THEN <<>>
    ELSE LET d == Dedup(SubSeq(s, 1, Len(s) - 1))
         IN IF \E i \in 1..Len(d) : d[i] = s[Len(s)]
            THEN d ELSE Append(d, s[Len(s)])

NoDuplicates(s) == \A i, j \in 1..Len(s) : s[i] = s[j] => i = j

\* one of the three lists of a batch analysis
ListOf(analysis, key) ==
    IF key = "key_points" THEN analysis.key_points
    ELSE IF key = "concerns" THEN analysis.concerns
    ELSE analysis.suggestions

ListKeys == { "key_points", "concerns", "suggestions" }

\* the concatenation of one list of batches 1..k, in batch order
RECURSIVE Concatenated(_, _, _)
Concatenated(batch_results, k, key) ==
    IF k = 0 THEN <<>>
    ELSE Concatenated(batch_results, k - 1, key)
         \o ListOf(batch_results[k].analysis, key)

\* one of the three lists of the aggregate
AggregateList(key) ==
    IF key = "key_points" THEN result.key_points
    ELSE IF key = "concerns" THEN result.concerns
    ELSE result.suggestions

\* analyze_all_comments has returned the aggregate of at least one batch
AggregateReturned == pc = "returned" /\ LoopDone

\* C11: each of key_points, concerns and suggestions of the aggregate is
\* the concatenation of the per-batch lists in batch order with every
\* exact duplicate removed (first occurrence kept), so no entry appears
\* twice in an aggregate list.
C11_Deduplicated ==
    AggregateReturned =>
        \A key \in ListKeys :
            /\ NoDuplicates(AggregateList(key))
            /\ AggregateList(key) =
                 Dedup(Concatenated(frame.batch_results,
                                    Len(frame.batch_results), key))

\* the model call of a batch failed, or its response holds no JSON object
BatchFailed(r) ==
    \/ r.api = "error"
    \/ ~HasJsonBlock(r.text)
    \/ ~JsonDecodes(JsonSlice(r.text))

\* the zero/empty batch analysis with a diagnostic summary
ZeroEmpty(analysis) ==
    /\ AggregatedKeys \subseteq analysis.keys
    /\ analysis.sentiment_score.n = 0
    /\ analysis.key_points = <<>>
    /\ analysis.concerns = <<>>
    /\ analysis.suggestions = <<>>
    /\ Len(analysis.summary) = 2
    /\ analysis.summary[1] = "Error analyzing comments: "

\* number of entries batches 1..k give to one list
RECURSIVE OffsetOf(_, _, _)
OffsetOf(batch_results, k, key) ==
    IF k = 0 THEN 0
    ELSE OffsetOf(batch_results, k - 1, key)
         + Len(ListOf(batch_results[k].analysis, key))

\* batch k's own list is the k-th segment of the aggregate list
Contributes(k, key) ==
    SubSeq(AggregateList(key),
           OffsetOf(frame.batch_results, k - 1, key) + 1,
           OffsetOf(frame.batch_results, k, key))
        = ListOf(frame.batch_results[k].analysis, key)

\* C12: a batch whose model call fails or whose response holds no JSON
\* object gets the zero/empty analysis with a diagnostic summary and nothing
\* is raised; every batch, before and after it, is still sent to the model
\* exactly once, and each batch's own result is part of the aggregate; the
\* call never aborts because of a failed batch.
C12_FailureIsolated ==
    (args.op = "analyze_all_comments" /\ frame.op = "analyze_all_comments") =>
        LET br == frame.batch_results
            n == Len(args.comments)
            b == args.batch_size
        IN /\ (pc = "batching" /\ Len(br) >= 1 /\ BatchFailed(response))
                 => /\ ZeroEmpty(br[Len(br)].analysis)
                    /\ br[Len(br)].comments
                         = Batch(args.comments, (Len(br) - 1) * b, b)
                    /\ raised = "none"
           /\ pc = "batching" => model_calls = Len(br)
           /\ frame.i >= n => Len(br) = (n + b - 1) \div b
           /\ pc = "returned" =>
                 /\ model_calls = Len(br) + 1
                 /\ \A k \in 1..Len(br), key \in ListKeys : Contributes(k, key)
           /\ pc = "raised" =>
                 \E k \in 1..Len(br) :
                    /\ ~ZeroEmpty(br[k].analysis)
                    /\ ~(AggregatedKeys \subseteq br[k].analysis.keys)

\* C12 witness: of three batches the second failed, and the aggregate
\* returned holds the key points of the first and the third.
C12_Witness ==
    /\ AggregateReturned
    /\ Len(frame.batch_results) = 3
    /\ ~ZeroEmpty(frame.batch_results[1].analysis)
    /\ ZeroEmpty(frame.batch_results[2].analysis)
    /\ ~ZeroEmpty(frame.batch_results[3].analysis)
    /\ result.key_points = frame.batch_results[1].analysis.key_points
                           \o frame.batch_results[3].analysis.key_points
    /\ Len(result.key_points) >= 2
    /\ model_calls = 4

\* sum of the per-batch sentiment scores, in units of 1/Scale
BatchScoreSum ==
    SumInts([k \in 1..Len(frame.batch_results) |->
                frame.batch_results[k].analysis.sentiment_score.n],
            1..Len(frame.batch_results))

\* C13: the aggregate sentiment_score is the sum of the per-batch scores
\* divided by the number of batches; a failed batch counts as one batch of
\* score 0, and the mean is not weighted by the batches' comment counts.
C13_MeanPerBatch ==
    AggregateReturned =>
        LET br == frame.batch_results
            n == Len(args.comments)
            b == args.batch_size
        IN /\ Len(br) = (n + b - 1) \div b
           /\ result.sentiment_score = Frac(BatchScoreSum, Scale * Len(br))
           /\ \A k \in 1..Len(br) :
                 ZeroEmpty(br[k].analysis)
                    => br[k].analysis.sentiment_score.n = 0

\* C13 witness: a batch of 3 comments scored 0.5 and a failed batch of 1
\* comment give the aggregate score 0.25.
C13_Witness ==
    /\ AggregateReturned
    /\ Len(frame.batch_results) = 2
    /\ Len(frame.batch_results[1].comments) = 3
    /\ Len(frame.batch_results[2].comments) = 1
    /\ frame.batch_results[1].analysis.sentiment_score = Frac(Half, Scale)
    /\ ZeroEmpty(frame.batch_results[2].analysis)
    /\ result.sentiment_score = Frac(Half, 2 * Scale)

\* the per-batch summaries of batches 1..k, one after the other
RECURSIVE ConcatenatedSummaries(_, _)
ConcatenatedSummaries(batch_results, k) ==
    IF k = 0 THEN <<>>
    ELSE ConcatenatedSummaries(batch_results, k - 1)
         \o batch_results[k].analysis.summary

\* C14: when the final summary call fails, analyze_all_comments raises
\* nothing, the summary of the aggregate is the concatenation of the
\* per-batch summaries, and the other fields are what they are when the
\* summary call succeeds.
C14_SummaryFallback ==
    (AggregateReturned /\ response.api = "error") =>
        LET br == frame.batch_results
        IN /\ raised = "none"
           /\ result.summary = ConcatenatedSummaries(br, Len(br))
           /\ result.sentiment_score = Frac(BatchScoreSum, Scale * Len(br))
           /\ \A key \in ListKeys :
                 AggregateList(key) = Concatenated(br, Len(br), key)
           /\ result.num_comments = Len(args.comments)

\* a step of the batch loop: one more model call, one more batch result
\* appended behind the results of the earlier batches
AppendsInOrder ==
    (frame.op = "analyze_all_comments" /\ frame'.op = "analyze_all_comments"
        /\ frame'.batch_results # frame.batch_results)
    => /\ Len(frame'.batch_results) = Len(frame.batch_results) + 1
       /\ SubSeq(frame'.batch_results, 1, Len(frame.batch_results))
             = frame.batch_results
       /\ model_calls' = model_calls + 1
       /\ frame'.i = frame.i + args.batch_size

\* the batches are taken in input order, the results are kept in batch
\* order, and the summary call comes after the last batch
BatchesInOrder ==
    (args.op = "analyze_all_comments" /\ frame.op = "analyze_all_comments") =>
        LET br == frame.batch_results
            n == Len(args.comments)
            b == args.batch_size
        IN /\ frame.i = Len(br) * b
           /\ \A k \in 1..Len(br) :
                 br[k].comments
                    = SubSeq(args.comments, (k - 1) * b + 1, Min(k * b, n))
           /\ model_calls \in { Len(br), Len(br) + 1 }
           /\ model_calls = Len(br) + 1 => (pc = "returned" /\ frame.i >= n)
           /\ pc = "returned" =>
                 \A key \in ListKeys :
                    AggregateList(key) = Concatenated(br, Len(br), key)

\* C16: batches are sent to the model one at a time in input order, each
\* result is appended behind the earlier ones, the aggregate lists are the
\* per-batch lists in batch index order, and the final summary call is made
\* only after every batch call has returned.
C16_InOrder == [](BatchesInOrder) /\ [][AppendsInOrder]_vars

\* C16 witness: two batches gave key points (a, b) and then (b, c), and the
\* aggregate returned lists them in that order after three model calls.
C16_Witness ==
    /\ AggregateReturned
    /\ Len(frame.batch_results) = 2
    /\ frame.batch_results[1].analysis.key_points = << "a", "b" >>
    /\ frame.batch_results[2].analysis.key_points = << "b", "c" >>
    /\ result.key_points = << "a", "b", "b", "c" >>
    /\ model_calls = 3

(***************************************************************************)
(* The pipeline analyze_proposal(url, analyze_sentiment)                   *)
(* (analyze_proposal.py).  DiscourseParser.parse_proposal is not among the *)
(* sources; it is modelled as the content-retrieval collaborator of the    *)
(* specification: it returns a proposal record or fails.                   *)
(***************************************************************************)
ProposalRecords ==
    { [keys |-> { "title", "created_at", "content", "comments" },
       comments |-> [k \in 1..n |-> k]] : n \in 0..MaxPipelineComments }

\* parse_proposal(url): a proposal record, or a fetch failure
parse_proposal ==
    { [raised |-> "FetchError", value |-> [keys |-> {}, comments |-> <<>>]] }
    \cup { [raised |-> "none", value |-> d] : d \in ProposalRecords }

\* the classification responses the pipeline is run on
PipelineResponses ==
    { r \in Responses :
        HoldsMembers(r.text) =>
            /\ DOMAIN r.body.scores = CategorySet
            /\ r.body.sum = One
            /\ Cardinality({ c \in CategorySet : r.body.scores[c] # 0 })
                    <= MaxPipelineNonZero }

\* the evaluation responses the pipeline is run on
PipelineEvalResponses ==
    { ApiFailure } \cup
    { [api |-> "ok", text |-> t, body |-> EmptyBody] :
        t \in { <<>>, << "score", " ", "0", ".", "8", ":" >>,
                << "score", " ", "8", ":" >> } }

\* analysis_results.get('primary_category')
GetPrimaryCategory(analysis_results) ==
    IF "primary_category" \in analysis_results.keys
    THEN analysis_results.primary_category ELSE "None"

\* parameters of analyze_all_comments besides self
analyze_all_comments_params == 1

\* arguments the pipeline passes to analyze_all_comments
sentiment_call_args == 2

\* lines 47-53: the optional sentiment step; the call passes two arguments
sentiment_step(analyze_sentiment, proposal_data, analysis_results) ==
    IF analyze_sentiment /\ Len(proposal_data.comments) > 0
    THEN IF "summary" \notin analysis_results.keys
         THEN [raised |-> "KeyError", value |-> "None"]
         ELSE IF analyze_all_comments_params # sentiment_call_args
         THEN [raised |-> "TypeError", value |-> "None"]
         ELSE [raised |-> "none", value |-> "comment_analysis"]
    ELSE [raised |-> "none", value |-> "None"]

\* mutant of EvaluationField: an absent text or list field is given as None
EvaluationFieldNone(detailed_evaluation, key, default) ==
    IF key \notin detailed_evaluation.keys
    THEN (IF key = "score" THEN default ELSE << "None" >>)
    ELSE IF key = "score" THEN detailed_evaluation.score
    ELSE IF key = "reasoning" THEN detailed_evaluation.reasoning
    ELSE IF key = "key_findings" THEN detailed_evaluation.key_findings
    ELSE IF key = "information_gaps" THEN detailed_evaluation.information_gaps
    ELSE detailed_evaluation.recommendations

\* detailed_evaluation.get(key, default)
EvaluationField(detailed_evaluation, key, default) ==
    IF key \notin detailed_evaluation.keys THEN default
    ELSE IF key = "score" THEN detailed_evaluation.score
    ELSE IF key = "reasoning" THEN detailed_evaluation.reasoning
    ELSE IF key = "key_findings" THEN detailed_evaluation.key_findings
    ELSE IF key = "information_gaps" THEN detailed_evaluation.information_gaps
    ELSE detailed_evaluation.recommendations

\* lines 56-79: the record the pipeline returns
combine_results(analysis_results, detailed_evaluation, comment_analysis) ==
    [category_weights |-> analysis_results.scores,
     primary_category |-> GetPrimaryCategory(analysis_results),
     summary |-> IF "summary" \in analysis_results.keys
                 THEN analysis_results.summary ELSE <<>>,
     detailed_evaluation |->
        [score |-> EvaluationField(detailed_evaluation, "score", Frac(0, 1)),
         reasoning |-> EvaluationField(detailed_evaluation, "reasoning", <<>>),
         key_findings |->
            EvaluationField(detailed_evaluation, "key_findings", <<>>),
         information_gaps |->
            EvaluationField(detailed_evaluation, "information_gaps", <<>>),
         recommendations |->
            EvaluationField(detailed_evaluation, "recommendations", <<>>)],
     comment_analysis |-> comment_analysis]

NoResults ==
    [category_weights |-> <<>>, primary_category |-> "", summary |-> <<>>,
     detailed_evaluation |->
        [score |-> Frac(0, 1), reasoning |-> <<>>, key_findings |-> <<>>,
         information_gaps |-> <<>>, recommendations |-> <<>>],
     comment_analysis |-> "None"]

InitPipeline ==
    /\ pc = "idle"
    /\ args = NoArgs
    /\ frame = NoFrame
    /\ response = NoResponse
    /\ result = NoResults
    /\ raised = "none"
    /\ model_calls = 0

\* line 28: proposal_data = parser.parse_proposal(url)
ParseProposal ==
    /\ pc = "idle"
    /\ \E analyze_sentiment \in BOOLEAN, out \in parse_proposal :
          /\ args' = [op |-> "pipeline", analyze_sentiment |-> analyze_sentiment]
          /\ frame' = [op |-> "pipeline", proposal_data |-> out.value,
                       analysis_results |-> NoResult,
                       detailed_evaluation |-> NoEvaluation,
                       comment_analysis |-> "None"]
          /\ raised' = out.raised
          /\ pc' = IF out.raised = "none" THEN "parsed" ELSE "raised"
    /\ UNCHANGED <<response, result, model_calls>>

\* lines 31-41: analyzer.analyze_proposal({'title': ..., 'content': ...})
ClassifyStep ==
    /\ pc = "parsed"
    /\ \E r \in PipelineResponses :
          LET out == analyze_proposal(r)
          IN /\ frame' = [frame EXCEPT !.analysis_results = out.value]
             /\ raised' = out.raised
             /\ pc' = IF out.raised = "none" THEN "classified" ELSE "raised"
    /\ model_calls' = model_calls + 1
    /\ UNCHANGED <<args, response, result>>

\* line 44: evaluator.evaluate_proposal(primary_category, proposal_data)
EvaluateStep ==
    /\ pc = "classified"
    /\ LET primary_category == GetPrimaryCategory(frame.analysis_results)
           reaches == ReachesModel(primary_category, frame.proposal_data)
       IN \E r \in IF reaches THEN PipelineEvalResponses ELSE { NoResponse } :
             LET out == evaluate_proposal(primary_category, frame.proposal_data, r)
             IN /\ frame' = [frame EXCEPT !.detailed_evaluation = out.value]
                /\ raised' = out.raised
                /\ pc' = IF out.raised = "none" THEN "evaluated" ELSE "raised"
                /\ model_calls' = IF reaches THEN model_calls + 1 ELSE model_calls
    /\ UNCHANGED <<args, response, result>>

\* lines 46-79: the sentiment step, the combined record and the return
CombineAndReturn ==
    /\ pc = "evaluated"
    /\ LET out == sentiment_step(args.analyze_sentiment, frame.proposal_data,
                                 frame.analysis_results)
       IN /\ frame' = [frame EXCEPT !.comment_analysis = out.value]
          /\ raised' = out.raised
          /\ pc' = IF out.raised = "none" THEN "returned" ELSE "raised"
          /\ result' = IF out.raised = "none"
                       THEN combine_results(frame.analysis_results,
                                            frame.detailed_evaluation, out.value)
                       ELSE result
    /\ UNCHANGED <<args, response, model_calls>>

NextPipeline == ParseProposal \/ ClassifyStep \/ EvaluateStep \/ CombineAndReturn

SpecPipeline == InitPipeline /\ [][NextPipeline]_vars

\* the classification of the pipeline run was recovered into the error record
ClassificationRecovered ==
    /\ args.op = "pipeline"
    /\ pc \in { "classified", "evaluated", "returned", "raised" }
    /\ frame.analysis_results.primary_category = "error"
    /\ HasAll8(frame.analysis_results) /\ AllZero8(frame.analysis_results)

\* C8: after a classification failure recovered into the zero-valued record
\* with primary_category "error", the pipeline raises nothing to its caller
\* and the record it returns is labelled with category "error" or score 0.0.
C8_PipelineSurvivesFailure ==
    ClassificationRecovered =>
        /\ pc # "raised" /\ raised = "none"
        /\ pc = "returned" =>
              \/ result.primary_category = "error"
              \/ result.detailed_evaluation.score.n = 0

\* the pipeline run got its evaluation and has ended
EvaluatedAndEnded ==
    /\ args.op = "pipeline"
    /\ pc \in { "returned", "raised" }
    /\ frame.detailed_evaluation.keys # {}

\* C15: the aggregator takes the proposal summary as second argument, so
\* the pipeline run with analyze_sentiment = True on a proposal with at
\* least one comment returns a result that contains comment_analysis.
C15_SummaryArgumentAccepted ==
    (EvaluatedAndEnded /\ args.analyze_sentiment
        /\ Len(frame.proposal_data.comments) >= 1)
    => /\ analyze_all_comments_params >= sentiment_call_args
       /\ pc = "returned" /\ raised = "none"
       /\ result.comment_analysis # "None"

\* the five fields of the pipeline's detailed_evaluation
EvaluationFields ==
    { "score", "reasoning", "key_findings", "information_gaps",
      "recommendations" }

\* C18: whichever of score, reasoning, key_findings, information_gaps and
\* recommendations the evaluator's record lacks, the detailed_evaluation of
\* the pipeline's result holds all five fields, an absent one with its
\* zero/empty value and a present one unchanged, and the run does not fail
\* for a field the evaluator's record lacks.
C18_EvaluationDefaults ==
    LET de == frame.detailed_evaluation
        out == result.detailed_evaluation
    IN /\ (args.op = "pipeline" /\ pc = "returned") =>
             /\ DOMAIN out = EvaluationFields
             /\ out.score = IF "score" \in de.keys THEN de.score ELSE Frac(0, 1)
             /\ \A f \in EvaluationFields \ { "score" } :
                   f \notin de.keys => out[f] = <<>>
             /\ "reasoning" \in de.keys => out.reasoning = de.reasoning
             /\ "key_findings" \in de.keys => out.key_findings = de.key_findings
             /\ "information_gaps" \in de.keys
                   => out.information_gaps = de.information_gaps
             /\ "recommendations" \in de.keys
                   => out.recommendations = de.recommendations
       /\ (EvaluatedAndEnded /\ pc = "raised") =>
             /\ args.analyze_sentiment
             /\ Len(frame.proposal_data.comments) >= 1
             /\ raised \in { "KeyError", "TypeError" }

\* C18 witness: the evaluator's record held a score of 0.8 and none of the
\* other four fields; the result carries 0.8 and four empty fields.
C18_Witness ==
    /\ args.op = "pipeline" /\ pc = "returned"
    /\ frame.detailed_evaluation.keys = { "score", "analysis", "category" }
    /\ frame.detailed_evaluation.score = Frac(8, 10)
    /\ result.detailed_evaluation =
          [score |-> Frac(8, 10), reasoning |-> <<>>, key_findings |-> <<>>,
           information_gaps |-> <<>>, recommendations |-> <<>>]

(***************************************************************************)
(* Specification of one call of any of the three operations that invoke    *)
(* the model: analyze_proposal of the ProposalAnalyzer, evaluate_proposal  *)
(* and analyze_all_comments.                                               *)
(***************************************************************************)
InitCalls == InitClassify

NextCalls ==
    \/ AnalyzeProposal
    \/ EvaluateProposal
    \/ CallAnalyzeAllComments
    \/ AnalyzeBatch
    \/ AggregateAndReturn

SpecCalls == InitCalls /\ [][NextCalls]_vars

\* the call that has ended was ProposalAnalyzer.analyze_proposal
ClassifyEnded == args.op = "none" /\ pc \in { "returned", "raised" }

\* the call that has ended was evaluate_proposal
EvaluateEnded == args.op = "evaluate_proposal" /\ pc \in { "returned", "raised" }

\* the call that has ended was analyze_all_comments on at least one comment
SentimentEnded ==
    /\ args.op = "analyze_all_comments"
    /\ Len(args.comments) >= 1
    /\ pc \in { "returned", "raised" }

\* C17: no model call is retried: one ProposalAnalyzer.analyze_proposal call
\* makes at most one model invocation, one evaluate_proposal call at most
\* one, and one analyze_all_comments call on n >= 1 comments makes exactly
\* ceil(n/batch_size) batch invocations and exactly one summary invocation,
\* whether or not invocations fail.
C17_NoRetry ==
    /\ ClassifyEnded => model_calls <= 1
    /\ EvaluateEnded => model_calls <= 1
    /\ SentimentEnded =>
          LET n == Len(args.comments)
              b == args.batch_size
          IN /\ Len(frame.batch_results) = (n + b - 1) \div b
             /\ model_calls = (n + b - 1) \div b + 1

\* C19: the score of every evaluation returned by evaluate_proposal lies in
\* the closed range [0, 1], whatever the response text.
C19_ScoreInUnitRange ==
    (args.op = "evaluate_proposal" /\ pc = "returned")
    => /\ 0 <= result.score.n
       /\ result.score.n <= result.score.d

\* the text of the except branch of evaluate_proposal
IsFailureDescription(text) ==
    Len(text) = 2 /\ text[1] = "Error evaluating proposal: "

\* C20: for a known category, when the model call fails or nothing can be
\* recovered from the response, evaluate_proposal raises nothing and
\* returns score 0.0, the failure description as its text and the requested
\* category; on the success path too the category is the requested one.
C20_EvaluationRecovered ==
    (args.op = "evaluate_proposal" /\ args.category \in PromptKeys
        /\ model_calls = 1)
    => /\ pc = "returned" /\ raised = "none"
       /\ result.category = args.category
       /\ (response.api = "error" \/ score_match(response.text) = <<>>)
             => /\ result.score.n = 0
                /\ IsFailureDescription(result.analysis)

(***************************************************************************)
(* Prompt building: the dispatch table of the EvaluatorAgent, the prompt   *)
(* of evaluate_proposal (evaluator_agents.py) and prepare_proposal_text    *)
(* (text_utils.py), which builds the text of the classification prompt.    *)
(* A text is named by what it is; the content of a comment is a text of a  *)
(* given length, and a slice of it is the prefix of that length.           *)
(***************************************************************************)
\* entries of key_points and of output_instructions in every table entry
KeyPointsPerPrompt == 3

InstructionsPerPrompt == 4

\* self.prompts: the template of each category
prompts ==
    [c \in PromptKeys |->
        [system |-> << c, "system" >>,
         key_points |-> [i \in 1..KeyPointsPerPrompt |-> << c, "key_point", i >>],
         output_instructions |->
            [i \in 1..InstructionsPerPrompt |-> << c, "instruction", i >>]]]

\* default of max_comments, and the [:3] of evaluate_proposal
max_comments == 3

\* the length of the preview of a comment
PreviewLen == 500

ContentLens == { 0, PreviewLen - 1, PreviewLen, PreviewLen + 1 }

\* comment lists: comment k of the thread holds a content of some length
PromptComments ==
    UNION { [1..n -> { [len |-> l] : l \in ContentLens }]
            : n \in 0..MaxPromptListed }

\* the proposal record a prompt is built for
PromptDetails ==
    { [keys |-> { "title", "created_at", "content", "comments" },
       comments |-> [k \in 1..Len(cs) |->
                        [content |-> [of |-> k, len |-> cs[k].len]]]]
      : cs \in PromptComments }

\* mutant of Preview: the whole content is embedded
PreviewUncut(content) == content

\* comment['content'][:500]
Preview(content) == [content EXCEPT !.len = Min(@, PreviewLen)]

\* comments[:limit]
Leading(comments, limit) == SubSeq(comments, 1, Min(Len(comments), limit))

\* the "Key Comments" lines of a prompt
KeyComments(comments) ==
    [k \in 1..Len(Leading(comments, max_comments)) |->
        Preview(comments[k].content)]

\* mutant of PromptFor: the template of the first category is taken
PromptForFirst(category) == prompts[Categories[1]]

\* prompt = self.prompts[category]
PromptFor(category) == prompts[category]

\* lines 145-172 of evaluate_proposal: the prompt sent to the model
full_prompt(category, proposal_details) ==
    [system |-> PromptFor(category).system,
     key_points |-> PromptFor(category).key_points,
     output_instructions |-> PromptFor(category).output_instructions,
     fields |-> << "title", "created_at", "content" >>,
     comments |-> KeyComments(proposal_details.comments)]

\* prepare_proposal_text(proposal_details, include_comments)
prepare_proposal_text(proposal_details, include_comments) ==
    [system |-> <<>>, key_points |-> <<>>, output_instructions |-> <<>>,
     fields |-> << "title", "content" >>,
     comments |-> IF include_comments /\ Len(proposal_details.comments) > 0
                  THEN KeyComments(proposal_details.comments)
                  ELSE <<>>]

NoPrompt ==
    [system |-> <<>>, key_points |-> <<>>, output_instructions |-> <<>>,
     fields |-> <<>>, comments |-> <<>>]

InitPrompt ==
    /\ pc = "idle"
    /\ args = NoArgs
    /\ frame = NoFrame
    /\ response = NoResponse
    /\ result = NoPrompt
    /\ raised = "none"
    /\ model_calls = 0

\* evaluate_proposal, up to the prompt it sends
BuildEvaluationPrompt ==
    /\ pc = "idle"
    /\ \E category \in PromptKeys, proposal_details \in PromptDetails :
          /\ args' = [op |-> "evaluate_proposal", category |-> category,
                      proposal_details |-> proposal_details]
          /\ result' = full_prompt(category, proposal_details)
    /\ pc' = "returned"
    /\ UNCHANGED <<frame, response, raised, model_calls>>

\* one call of prepare_proposal_text
PrepareProposalText ==
    /\ pc = "idle"
    /\ \E proposal_details \in PromptDetails, include_comments \in BOOLEAN :
          /\ args' = [op |-> "prepare_proposal_text",
                      include_comments |-> include_comments,
                      proposal_details |-> proposal_details]
          /\ result' = prepare_proposal_text(proposal_details, include_comments)
    /\ pc' = "returned"
    /\ UNCHANGED <<frame, response, raised, model_calls>>

NextPrompt == BuildEvaluationPrompt \/ PrepareProposalText

SpecPrompt == InitPrompt /\ [][NextPrompt]_vars

\* the template parts of a table entry
TemplateOf(c) ==
    << prompts[c].system, prompts[c].key_points, prompts[c].output_instructions >>

\* C21: the dispatch table has exactly the 8 category identifiers as keys,
\* each entry has a system framing, 3 key_points and 4 output_instructions,
\* no two categories share a template, and the prompt of evaluate_proposal
\* is built from the entry of the requested category only.
C21_DispatchTable ==
    /\ DOMAIN prompts = CategorySet
    /\ Cardinality(DOMAIN prompts) = 8
    /\ \A c \in DOMAIN prompts :
          /\ DOMAIN prompts[c] = { "system", "key_points", "output_instructions" }
          /\ prompts[c].system # <<>>
          /\ Len(prompts[c].key_points) = 3
          /\ Len(prompts[c].output_instructions) = 4
    /\ \A c, d \in DOMAIN prompts : c # d => TemplateOf(c) # TemplateOf(d)
    /\ (pc = "returned" /\ args.op = "evaluate_proposal") =>
          /\ << result.system, result.key_points, result.output_instructions >>
                = TemplateOf(args.category)
          /\ \A d \in DOMAIN prompts \ { args.category } :
                /\ result.system # prompts[d].system
                /\ \A i \in 1..Len(result.key_points) :
                      \A j \in 1..Len(prompts[d].key_points) :
                         result.key_points[i] # prompts[d].key_points[j]
                /\ \A i \in 1..Len(result.output_instructions) :
                      \A j \in 1..Len(prompts[d].output_instructions) :
                         result.output_instructions[i]
                            # prompts[d].output_instructions[j]

\* C21 witness: the prompt built for the last category holds the template
\* of the last category.
C21_Witness ==
    /\ pc = "returned" /\ args.op = "evaluate_proposal"
    /\ args.category = Categories[8]
    /\ result.system = prompts[Categories[8]].system
    /\ Len(result.key_points) = 3
    /\ Len(result.output_instructions) = 4

\* C24: a prompt embeds at most the first 3 comments of the proposal, in
\* forum order, and at most the first 500 characters of each of them,
\* however many and however long the comments are.
C24_PromptBounded ==
    (pc = "returned"
        /\ args.op \in { "evaluate_proposal", "prepare_proposal_text" })
    => LET comments == args.proposal_details.comments
       IN /\ Len(result.comments) <= 3
          /\ Len(result.comments) <= Len(comments)
          /\ \A k \in 1..Len(result.comments) :
                /\ result.comments[k].of = k
                /\ result.comments[k].len <= 500
                /\ result.comments[k].len <= comments[k].content.len

\* C24 witness: of 4 comments, the third longer than 500 characters, the
\* evaluation prompt embeds the first 3, the third cut to 500.
C24_Witness ==
    /\ pc = "returned" /\ args.op = "evaluate_proposal"
    /\ Len(args.proposal_details.comments) = 4
    /\ args.proposal_details.comments[3].content.len = 501
    /\ Len(result.comments) = 3
    /\ result.comments[3] = [of |-> 3, len |-> 500]

(***************************************************************************)
(* Further properties of ProposalAnalyzer.analyze_proposal (SpecClassify)  *)
(* and of analyze_all_comments (SpecSentiment).                            *)
(***************************************************************************)
\* opening minus closing braces of text[a..k]
Depth(text, a, k) ==
    Cardinality({ j \in a..k : text[j] = "{" })
    - Cardinality({ j \in a..k : text[j] = "}" })

\* the ends of the first balanced {...} of the text: the position that
\* closes the first opening brace (empty when it is never closed)
BalancedEnds(text) ==
    LET a == json_start(text) + 1
    IN { k \in a..Len(text) :
           /\ Depth(text, a, k) = 0
           /\ \A j \in a..(k - 1) : Depth(text, a, j) > 0 }

HasBalancedObject(text) == json_start(text) >= 0 /\ BalancedEnds(text) # {}

FirstBalancedObject(text) ==
    SubSeq(text, json_start(text) + 1, CHOOSE k \in BalancedEnds(text) : TRUE)

\* C22: the text handed to the JSON decoder is the first balanced {...}
\* substring of the response, so a response holding one complete object
\* followed by text with a further closing brace is decoded, not treated as
\* a parse failure.
C22_FirstBalancedObject ==
    (pc = "returned" /\ response.api = "ok"
        /\ HasBalancedObject(response.text))
    => /\ JsonSlice(response.text) = FirstBalancedObject(response.text)
       /\ JsonDecodes(FirstBalancedObject(response.text))
             => result.summary # << "Error analyzing proposal: ", "JSONDecodeError" >>

\* C23: the weights returned by classification are a mapping over exactly
\* the 8 category identifiers (no key more, none missing) and every weight
\* is non-negative.
C23_ExactlyEightWeights ==
    pc = "returned" =>
        /\ DOMAIN result.scores = CategorySet
        /\ \A c \in DOMAIN result.scores : result.scores[c].n >= 0

\* |a - b| <= 0.0001
FracClose(a, b) ==
    Abs(a.n * b.d - b.n * a.d) <= (a.d * b.d) \div TolDen

\* C29: in every record returned by analyze_proposal the sum field equals
\* the total of the returned category values within 1e-4, also when no
\* renormalization was needed.
C29_SumFieldIsTotal ==
    pc = "returned" =>
        /\ "sum" \in result.keys
        /\ FracClose(result.sum,
                     SumFracs(result.scores, CategorySet \cap DOMAIN result.scores))

\* C28: analyze_all_comments never raises because of what a batch response
\* holds; with a batch response that is a JSON object lacking one of
\* sentiment_score, key_points, concerns and suggestions the aggregation
\* completes and returns an aggregate of the batches.
C28_NeverRaises ==
    (args.op = "analyze_all_comments" /\ pc # "idle") =>
        /\ pc # "raised" /\ raised = "none"
        /\ (pc = "returned" /\ Len(args.comments) >= 1)
              => result.num_comments = Len(args.comments)

(***************************************************************************)
(* clean_html_content (text_utils.py), one character at a time.  The texts *)
(* are over an alphabet in which, of the ten closing tags replaced by a    *)
(* newline, only </p> can be written.                                      *)
(***************************************************************************)
HtmlChars == { "<", ">", "/", "p", " ", "\n" }

HtmlTexts == UNION { [1..n -> HtmlChars] : n \in 0..MaxHtmlLen }

\* str.replace: every non-overlapping occurrence, from the left
RECURSIVE ReplaceAll(_, _, _)
ReplaceAll(text, pat, rep) ==
    IF Len(text) < Len(pat) THEN text
    ELSE IF SubSeq(text, 1, Len(pat)) = pat
    THEN rep \o ReplaceAll(SubSeq(text, Len(pat) + 1, Len(text)), pat, rep)
    ELSE << text[1] >> \o ReplaceAll(Tail(text), pat, rep)

\* lines 39-48: the closing tags become newlines
ClosingTagsReplaced(text) ==
    ReplaceAll(text, << "<", "/", "p", ">" >>, << "\n" >>)

\* str.find(tok, start): 0-based, -1 when there is none
FindFrom(text, tok, start) ==
    IF \E i \in (start + 1)..Len(text) : text[i] = tok
    THEN (CHOOSE i \in (start + 1)..Len(text) :
            text[i] = tok /\ \A j \in (start + 1)..(i - 1) : text[j] # tok) - 1
    ELSE -1

\* '<' in text and '>' in text
HasBothBrackets(text) == Find(text, "<") >= 0 /\ Find(text, ">") >= 0

\* the loop goes on: its condition holds and the break is not taken
TagFound(text) ==
    HasBothBrackets(text) /\ FindFrom(text, ">", Find(text, "<")) # -1

\* mutant of TagRemoved: the text is left as it is
TagKept(text) == text

\* text[:start] + text[end + 1:]
TagRemoved(text) ==
    LET start == Find(text, "<")
        end == FindFrom(text, ">", start)
    IN SubSeq(text, 1, start) \o SubSeq(text, end + 2, Len(text))

\* str.split('\n')
RECURSIVE SplitLines(_)
SplitLines(text) ==
    IF Find(text, "\n") = -1 THEN << text >>
    ELSE << SubSeq(text, 1, Find(text, "\n")) >>
         \o SplitLines(SubSeq(text, Find(text, "\n") + 2, Len(text)))

\* str.strip() of a line
RECURSIVE Strip(_)
Strip(line) ==
    IF line = <<>> THEN line
    ELSE IF line[1] = " " THEN Strip(Tail(line))
    ELSE IF line[Len(line)] = " " THEN Strip(SubSeq(line, 1, Len(line) - 1))
    ELSE line

\* '\n'.join of the stripped lines that are not empty
RECURSIVE JoinedLines(_)
JoinedLines(lines) ==
    IF lines = <<>> THEN <<>>
    ELSE LET rest == JoinedLines(Tail(lines))
             line == Strip(lines[1])
         IN IF line = <<>> THEN rest
            ELSE IF rest = <<>> THEN line
            ELSE line \o << "\n" >> \o rest

\* lines 59-61
WhitespaceCleaned(text) == JoinedLines(SplitLines(text))

InitClean ==
    /\ pc = "idle"
    /\ args = NoArgs
    /\ frame = NoFrame
    /\ response = NoResponse
    /\ result = <<>>
    /\ raised = "none"
    /\ model_calls = 0

\* the call, up to the start of the tag-stripping loop
CallCleanHtml ==
    /\ pc = "idle"
    /\ \E html_content \in HtmlTexts :
          /\ args' = [op |-> "clean_html_content", html_content |-> html_content]
          /\ frame' = [op |-> "clean_html_content",
                       text |-> ClosingTagsReplaced(html_content),
                       iterations |-> 0]
    /\ pc' = "stripping"
    /\ UNCHANGED <<response, result, raised, model_calls>>

\* one iteration of the loop of lines 51-56
StripTag ==
    /\ pc = "stripping"
    /\ TagFound(frame.text)
    /\ frame' = [frame EXCEPT !.text = TagRemoved(@), !.iterations = @ + 1]
    /\ UNCHANGED <<pc, args, response, result, raised, model_calls>>

\* the loop ends (condition false, or break): whitespace cleanup and return
CleanWhitespaceAndReturn ==
    /\ pc = "stripping"
    /\ ~TagFound(frame.text)
    /\ result' = WhitespaceCleaned(frame.text)
    /\ pc' = "returned"
    /\ UNCHANGED <<args, frame, response, raised, model_calls>>

NextClean == CallCleanHtml \/ StripTag \/ CleanWhitespaceAndReturn

SpecClean == InitClean /\ [][NextClean]_vars

\* the interpreter runs the call to its end
SpecCleanLive == SpecClean /\ WF_vars(NextClean)

\* an iteration of the loop makes the text shorter
StripShortens ==
    (pc = "stripping" /\ pc' = "stripping") =>
        /\ Len(frame'.text) < Len(frame.text)
        /\ frame'.iterations = frame.iterations + 1

\* the loop is bounded, nothing is raised, and what is returned is a text
CleanIsSafe ==
    /\ pc = "stripping" =>
          /\ 2 * frame.iterations <= Len(args.html_content)
          /\ raised = "none"
    /\ pc = "returned" =>
          /\ raised = "none"
          /\ result \in HtmlTexts
          /\ args.html_content = <<>> => result = <<>>

\* C25: for every input text, also one with a '<' that no '>' follows or a
\* '>' before every '<', the tag-stripping loop of clean_html_content stops
\* after finitely many iterations, nothing is raised and a text is
\* returned; the empty text gives the empty text.
C25_CleanTerminates ==
    /\ []CleanIsSafe
    /\ [][StripShortens]_vars
    /\ (pc = "stripping") ~> (pc = "returned")

\* C25 witness: the text "> <p" (a '>' before the only '<', which is never
\* closed) has been returned after no iteration of the loop.
C25_Witness ==
    /\ pc = "returned"
    /\ args.html_content = << ">", " ", "<", "p" >>
    /\ frame.iterations = 0
    /\ result = << ">", " ", "<", "p" >>

(***************************************************************************)
(* Analysis requests of one process, each running in its own thread: the   *)
(* objects a request creates (analyze_proposal.py:23-25) and the steps of  *)
(* ClaudeClient.get_instance (claude_client.py:14-17), which               *)
(* ProposalAnalyzer.__init__ calls.  pc maps each request to its position; *)
(* frame holds the class attribute _instance and the locals of the calls;  *)
(* result maps each request to the objects it holds.  An object is named   *)
(* by its kind and a number.                                               *)
(***************************************************************************)
Requests == 1..NumRequests

\* cls._instance is None
None == 0

NoObject == << "None", 0 >>

\* the anthropic.Anthropic handle a ClaudeClient holds in self._client
ClientHandle(instance) == << "ClaudeClient._client", instance >>

\* mutant of NewAnalyzer: one analyzer object serves every request
SharedAnalyzer(r) == << "ProposalAnalyzer", 0 >>

\* analyzer = ProposalAnalyzer(): a new object per request
NewAnalyzer(r) == << "ProposalAnalyzer", r >>

InitRequests ==
    /\ pc = [r \in Requests |-> "idle"]
    /\ args = NoArgs
    /\ frame = [op |-> "requests", _instance |-> None, constructed |-> 0,
                creator |-> [i \in Requests |-> 0],
                tmp |-> [r \in Requests |-> None]]
    /\ response = NoResponse
    /\ result = [r \in Requests |->
                    [analyzer |-> NoObject, analyzer_client |-> NoObject,
                     evaluator |-> NoObject, evaluator_client |-> NoObject]]
    /\ raised = "none"
    /\ model_calls = 0

\* analyzer = ProposalAnalyzer(); its __init__ enters get_instance and
\* evaluates the test of line 15
CheckInstance(r) ==
    /\ pc[r] = "idle"
    /\ pc' = [pc EXCEPT ![r] = IF frame._instance = None
                               THEN "construct" ELSE "return"]
    /\ UNCHANGED <<args, frame, response, result, raised, model_calls>>

\* cls(): __init__ builds the client, or raises when the API key is missing
ConstructInstance(r) ==
    /\ pc[r] = "construct"
    /\ \E api_key \in BOOLEAN :
          IF api_key
          THEN /\ frame' = [frame EXCEPT
                     !.constructed = @ + 1,
                     !.creator[frame.constructed + 1] = r,
                     !.tmp[r] = frame.constructed + 1]
               /\ pc' = [pc EXCEPT ![r] = "assign"]
          ELSE /\ frame' = frame
               /\ pc' = [pc EXCEPT ![r] = "raised"]
    /\ UNCHANGED <<args, response, result, raised, model_calls>>

\* cls._instance = <the object built>
AssignInstance(r) ==
    /\ pc[r] = "assign"
    /\ frame' = [frame EXCEPT !._instance = frame.tmp[r]]
    /\ pc' = [pc EXCEPT ![r] = "return"]
    /\ UNCHANGED <<args, response, result, raised, model_calls>>

\* return cls._instance, and self.client = <that instance>.client
ReturnInstance(r) ==
    /\ pc[r] = "return"
    /\ result' = [result EXCEPT
           ![r].analyzer = NewAnalyzer(r),
           ![r].analyzer_client = ClientHandle(frame._instance)]
    /\ pc' = [pc EXCEPT ![r] = "analyzer"]
    /\ UNCHANGED <<args, frame, response, raised, model_calls>>

\* evaluator = EvaluatorAgent(): the evaluator builds a client of its own
CreateEvaluator(r) ==
    /\ pc[r] = "analyzer"
    /\ result' = [result EXCEPT
           ![r].evaluator = << "EvaluatorAgent", r >>,
           ![r].evaluator_client = << "EvaluatorAgent.client", r >>]
    /\ pc' = [pc EXCEPT ![r] = "done"]
    /\ UNCHANGED <<args, frame, response, raised, model_calls>>

NextRequests ==
    \E r \in Requests :
        \/ CheckInstance(r)
        \/ ConstructInstance(r)
        \/ AssignInstance(r)
        \/ ReturnInstance(r)
        \/ CreateEvaluator(r)

SpecRequests == InitRequests /\ [][NextRequests]_vars

\* the objects request r can reach through what it holds
Reachable(r) ==
    { result[r].analyzer, result[r].analyzer_client,
      result[r].evaluator, result[r].evaluator_client } \ { NoObject }

\* the objects two different requests can both reach
SharedObjects ==
    UNION { IF r = q THEN {} ELSE Reachable(r) \cap Reachable(q) :
            r \in Requests, q \in Requests }

\* the client handles of the ClaudeClient objects built so far
InstanceHandles == { ClientHandle(i) : i \in 1..frame.constructed }

\* C26: nothing created by one request (records, analyzer state, client
\* handle) is reachable from another request, whether the requests run one
\* after the other or interleaved.
C26_NothingShared == SharedObjects = {}

\* C26, as the code has it: the only objects two requests can both reach
\* are client handles of ClaudeClient objects obtained from get_instance;
\* the analyzer, the evaluator and the evaluator's client of a request are
\* reachable from that request only.
C26_OnlyClientShared ==
    /\ SharedObjects \subseteq InstanceHandles
    /\ \A r \in Requests : \A q \in Requests \ { r } :
          /\ result[r].analyzer \notin Reachable(q)
          /\ result[r].evaluator \notin Reachable(q)
          /\ result[r].evaluator_client \notin Reachable(q)

\* C26 witness: request 1 built the ClaudeClient and request 2, served
\* after it, holds the client handle of that same object in its analyzer.
C26_Witness ==
    /\ pc[1] = "done" /\ pc[2] = "done"
    /\ frame.constructed = 1 /\ frame.creator[1] = 1
    /\ result[1].analyzer_client = ClientHandle(1)
    /\ result[2].analyzer_client = ClientHandle(1)
    /\ result[1].analyzer # result[2].analyzer

\* C30: get_instance creates at most one ClaudeClient over the life of the
\* process, also when callers run concurrently: every call that returns
\* gives the one instance, and a construction that failed stored nothing.
C30_AtMostOneClient ==
    /\ frame.constructed <= 1
    /\ \A r \in Requests :
          pc[r] \in { "analyzer", "done" }
             => result[r].analyzer_client = ClientHandle(1)
    /\ frame.constructed = 0 => frame._instance = None

(***************************************************************************)
(* The functions that take the proposal's comment list, over a heap of     *)
(* objects, so that a list, a slice of it and the records they both hold   *)
(* are told apart.  frame.heap is the sequence of objects, an address is   *)
(* an index into it and a new object is appended to it; args.comments is   *)
(* the address of the caller's list and args.given the heap as the caller  *)
(* handed it over.  A string or number held in a list is the item 0.       *)
(***************************************************************************)
\* a list or a dict with the items it holds
Obj(kind, items) == [kind |-> kind, items |-> items]

\* the caller's comment records; items is empty when a record has no
\* 'content' key, and holds the length of the content otherwise
HeapInputs ==
    UNION { [1..n -> { [kind |-> "comment", items |-> c]
                       : c \in { <<>>, << 1 >>, << PreviewLen + 1 >> } }]
            : n \in 0..MaxHeapComments }

\* target.append(item)
ListAppend(heap, target, item) ==
    [heap EXCEPT ![target].items = Append(@, item)]

\* mutant of Slice: the list is cut down in place before it is copied
SliceInPlace(heap, src, lo, hi) ==
    Append([heap EXCEPT ![src].items = SubSeq(@, lo, Min(hi, Len(@)))],
           Obj("list", SubSeq(heap[src].items, lo, Min(hi, Len(heap[src].items)))))

\* src[lo-1:hi]: a new list holding the same records
Slice(heap, src, lo, hi) ==
    Append(heap,
           Obj("list", SubSeq(heap[src].items, lo, Min(hi, Len(heap[src].items)))))

\* 'content' in comment
HasContent(heap, a) == Len(heap[a].items) > 0

\* how many leading records of a list give their content before one of
\* them raises KeyError
Readable(heap, list) ==
    LET items == heap[list].items
    IN  CHOOSE k \in 0..Len(items) :
           /\ \A j \in 1..k : HasContent(heap, items[j])
           /\ k = Len(items) \/ ~HasContent(heap, items[k + 1])

AllReadable(heap, list) == Readable(heap, list) = Len(heap[list].items)

\* the heap after prepare_proposal_text and evaluate_proposal have formatted
\* the key comments: the parts written, the slice comments[:max_comments],
\* one part per comment read
KeyCommentsOnHeap(heap, comments, parts) ==
    LET h1 == Append(heap, Obj("list", [k \in 1..parts |-> 0]))
        text_parts == Len(h1)
        h2 == Slice(h1, comments, 1, max_comments)
    IN  [h2 EXCEPT ![text_parts].items =
            @ \o [k \in 1..Readable(h2, Len(h2)) |-> 0]]

\* the heap after analyze_comment_batch(comments): the contents are read,
\* and the record returned holds the list it was given
analyze_comment_batch_on_heap(heap, comments) ==
    IF AllReadable(heap, comments)
    THEN Append(heap, Obj("dict", << comments, 0 >>))
    ELSE heap

InitReadOnly ==
    /\ pc = "idle"
    /\ \E records \in HeapInputs :
          LET heap == Append(records,
                             Obj("list", [k \in 1..Len(records) |-> k]))
          IN  /\ args = [op |-> "none", comments |-> Len(heap), given |-> heap]
              /\ frame = [op |-> "heap", heap |-> heap, i |-> 0,
                          batch_size |-> 0, batch_results |-> 0]
    /\ response = NoResponse
    /\ result = 0
    /\ raised = "none"
    /\ model_calls = 0

\* prepare_proposal_text(proposal_details, include_comments)
PrepareTextOnHeap ==
    /\ pc = "idle"
    /\ \E include_comments \in BOOLEAN :
          LET heap == frame.heap
              comments == args.comments
              listed == include_comments /\ Len(heap[comments].items) > 0
              after == IF listed THEN KeyCommentsOnHeap(heap, comments, 3)
                       ELSE Append(heap, Obj("list", << 0, 0 >>))
              failed == listed /\ ~AllReadable(after, Len(after))
          IN  /\ frame' = [frame EXCEPT !.heap = after]
              /\ raised' = IF failed THEN "KeyError" ELSE "none"
              /\ pc' = IF failed THEN "raised" ELSE "returned"
    /\ args' = [args EXCEPT !.op = "prepare_proposal_text"]
    /\ UNCHANGED <<response, result, model_calls>>

\* EvaluatorAgent.evaluate_proposal(category, proposal_details)
EvaluateOnHeap ==
    /\ pc = "idle"
    /\ args' = [args EXCEPT !.op = "evaluate_proposal"]
    /\ \E known \in BOOLEAN, scored \in BOOLEAN :
          LET heap == frame.heap
              after == KeyCommentsOnHeap(heap, args.comments, 1)
              failed == ~AllReadable(after, Len(after))
              analysis == Append(after, Obj("dict", << 0, 0, 0 >>))
          IN  IF ~known
              THEN /\ raised' = "ValueError" /\ pc' = "raised"
                   /\ UNCHANGED <<frame, result, model_calls>>
              ELSE IF failed
              THEN /\ raised' = "KeyError" /\ pc' = "raised"
                   /\ frame' = [frame EXCEPT !.heap = after]
                   /\ UNCHANGED <<result, model_calls>>
              ELSE /\ raised' = "none" /\ pc' = "returned"
                   /\ model_calls' = model_calls + 1
                   /\ result' = Len(analysis)
                   /\ frame' = [frame EXCEPT !.heap =
                         IF scored
                         THEN [analysis EXCEPT ![Len(analysis)].items[1] = 0]
                         ELSE analysis]
    /\ UNCHANGED response

\* SentimentAnalyzer.analyze_comment_batch(comments), called on the list
CallBatchOnHeap ==
    /\ pc = "idle"
    /\ args' = [args EXCEPT !.op = "analyze_comment_batch"]
    /\ LET after == analyze_comment_batch_on_heap(frame.heap, args.comments)
           failed == ~AllReadable(frame.heap, args.comments)
       IN  /\ frame' = [frame EXCEPT !.heap = after]
           /\ raised' = IF failed THEN "KeyError" ELSE "none"
           /\ pc' = IF failed THEN "raised" ELSE "returned"
           /\ result' = IF failed THEN 0 ELSE Len(after)
           /\ model_calls' = IF failed THEN model_calls ELSE model_calls + 1
    /\ UNCHANGED response

\* SentimentAnalyzer.analyze_all_comments(comments), up to the batch loop
CallAllOnHeap ==
    /\ pc = "idle"
    /\ args' = [args EXCEPT !.op = "analyze_all_comments"]
    /\ IF Len(frame.heap[args.comments].items) = 0
       THEN LET after == Append(frame.heap, Obj("dict", << 0 >>))
            IN  /\ frame' = [frame EXCEPT !.heap = after]
                /\ result' = Len(after)
                /\ pc' = "returned"
       ELSE \E batch_size \in 1..MaxBatchSize :
               LET after == Append(frame.heap, Obj("list", <<>>))
               IN  /\ frame' = [frame EXCEPT !.heap = after, !.i = 0,
                                   !.batch_size = batch_size,
                                   !.batch_results = Len(after)]
                   /\ result' = result
                   /\ pc' = "batching"
    /\ UNCHANGED <<response, raised, model_calls>>

\* one turn of the batch loop: the slice, the call, batch_results.append
BatchOnHeap ==
    /\ pc = "batching"
    /\ frame.i < Len(frame.heap[args.comments].items)
    /\ LET sliced == Slice(frame.heap, args.comments, frame.i + 1,
                           frame.i + frame.batch_size)
           batch == Len(sliced)
           failed == ~AllReadable(sliced, batch)
           after == analyze_comment_batch_on_heap(sliced, batch)
       IN  IF failed
           THEN /\ frame' = [frame EXCEPT !.heap = sliced]
                /\ raised' = "KeyError" /\ pc' = "raised"
                /\ UNCHANGED model_calls
           ELSE /\ frame' = [frame EXCEPT
                      !.heap = ListAppend(after, frame.batch_results,
                                          Len(after)),
                      !.i = @ + frame.batch_size]
                /\ raised' = "none" /\ pc' = "batching"
                /\ model_calls' = model_calls + 1
    /\ UNCHANGED <<args, response, result>>

\* the aggregation after the loop: three lists are filled and a record is
\* returned, or a batch analysis lacks a key
AggregateOnHeap ==
    /\ pc = "batching"
    /\ frame.i >= Len(frame.heap[args.comments].items)
    /\ \E complete \in BOOLEAN :
          LET lists == Append(Append(Append(frame.heap, Obj("list", <<>>)),
                                   Obj("list", <<>>)), Obj("list", <<>>))
              extended == ListAppend(lists, Len(lists), 0)
              after == Append(extended,
                             Obj("dict", << Len(lists) - 2, Len(lists) - 1,
                                        Len(lists) >>))
          IN  IF complete
              THEN /\ frame' = [frame EXCEPT !.heap = after]
                   /\ result' = Len(after)
                   /\ raised' = "none" /\ pc' = "returned"
                   /\ model_calls' = model_calls + 1
              ELSE /\ frame' = [frame EXCEPT !.heap = lists]
                   /\ raised' = "KeyError" /\ pc' = "raised"
                   /\ UNCHANGED <<result, model_calls>>
    /\ UNCHANGED <<args, response>>

NextReadOnly ==
    \/ PrepareTextOnHeap
    \/ EvaluateOnHeap
    \/ CallBatchOnHeap
    \/ CallAllOnHeap
    \/ BatchOnHeap
    \/ AggregateOnHeap

SpecReadOnly == InitReadOnly /\ [][NextReadOnly]_vars

\* the addresses of the caller's comment records and of the list itself
InputAddresses == 1..args.comments

\* C27: analyze_all_comments, analyze_comment_batch, prepare_proposal_text
\* and evaluate_proposal leave the input comment list and every record in
\* it unchanged (same length, same order, same field values) after they
\* return, on success and on failure alike.
C27_InputsReadOnly ==
    pc \in { "returned", "raised" }
       => \A a \in InputAddresses : frame.heap[a] = args.given[a]

\* C27 witness: analyze_all_comments returned over two or more comments
\* after several batches, each batch record holding a slice that shares
\* the caller's records.
C27_Witness ==
    /\ pc = "returned"
    /\ args.op = "analyze_all_comments"
    /\ Len(frame.heap[args.comments].items) >= 2
    /\ Len(frame.heap[frame.batch_results].items) >= 2
    /\ \A k \in 1..Len(frame.heap[frame.batch_results].items) :
          LET batch == frame.heap[frame.heap[frame.batch_results].items[k]].items[1]
          IN  /\ batch # args.comments
              /\ \A j \in 1..Len(frame.heap[batch].items) :
                    frame.heap[batch].items[j] \in InputAddresses

====
